---- MODULE Spec2Model ----
(***************************************************************************)
(* Model of the request-binding and response-shaping layer of the          *)
(* conformance server: src/src/conformanceApiPlugin.ts.                     *)
(*                                                                         *)
(* Every route handler is two steps around its one suspension point, the   *)
(* awaited call into the API service: the binder builds the typed request  *)
(* and dispatches it, the shaper receives the typed result and drives the  *)
(* reply.  The reply is modelled as the log of the calls the handler makes *)
(* on it (status, header, send), in order.                                 *)
(***************************************************************************)
EXTENDS Integers, Sequences, FiniteSets, TLC

(***************************************************************************)
(* JavaScript values.  Every value is a record tagged by its type in t.    *)
(* A string whose characters the code inspects (a raw query parameter or   *)
(* path segment) is a sequence of one-character strings in field s; a      *)
(* string the code only compares or uses as a key (an error code) is kept  *)
(* whole in field a.                                                       *)
(***************************************************************************)
Undefined == [t |-> "undefined"]

Null == [t |-> "null"]

Bool(b) == [t |-> "boolean", b |-> b]

Str(chars) == [t |-> "string", s |-> chars]

Atom(name) == [t |-> "string", a |-> name]

\* An opaque object (a widget, a payload) known only by its identity.
Ref(name) == [t |-> "object", ref |-> name]

EmptyObject == [t |-> "object"]

\* obj[key]: a property that is not there reads as undefined.
Get(obj, key) == IF key \in DOMAIN obj THEN obj[key] ELSE Undefined

\* obj[key] = value
Put(obj, key, value) ==
    [x \in DOMAIN obj \cup {key} |-> IF x = key THEN value ELSE obj[x]]

\* ToBoolean, as applied by if (...), && and ||.
Truthy(v) ==
    CASE v.t = "undefined" -> FALSE
      [] v.t = "null" -> FALSE
      [] v.t = "boolean" -> v.b
      [] v.t = "number" -> v.k = "Infinity" \/ (v.k = "finite" /\ v.whole \o v.frac # <<"0">>)
      [] v.t = "string" -> IF "s" \in DOMAIN v THEN v.s # <<>> ELSE v.a # ""
      [] OTHER -> TRUE

\* typeof v === "string"
IsString(v) == v.t = "string"

\* v != null
NotNullish(v) == v.t \notin {"undefined", "null"}

(***************************************************************************)
(* Numbers.  A JavaScript number is an IEEE 754 double.  A finite one is   *)
(* kept by the decimal digits Number::toString gives it, the shortest that *)
(* read back as the same double: the digits before the point and the       *)
(* digits after it.  The arithmetic that finds the double nearest to a     *)
(* decimal literal is done on natural numbers of any size.                 *)
(***************************************************************************)
Finite(sign, whole, frac) ==
    [t |-> "number", k |-> "finite", sign |-> sign, whole |-> whole, frac |-> frac]

Zero == Finite(1, <<"0">>, <<>>)

NaN == [t |-> "number", k |-> "NaN"]

NegZero == [t |-> "number", k |-> "-0"]

Infinity(sign) == [t |-> "number", k |-> "Infinity", sign |-> sign]

Drop(chars, n) == SubSeq(chars, n + 1, Len(chars))

Take(chars, n) == SubSeq(chars, 1, n)

StartsWith(chars, prefix) ==
    Len(chars) >= Len(prefix) /\ Take(chars, Len(prefix)) = prefix

\* The number of leading characters of chars that are in set.
PrefixLen(chars, set) ==
    IF \A i \in 1..Len(chars) : chars[i] \in set
    THEN Len(chars)
    ELSE (CHOOSE i \in 1..Len(chars) :
              chars[i] \notin set /\ \A j \in 1..(i - 1) : chars[j] \in set) - 1

\* The number of trailing characters of chars that are in set.
SuffixLen(chars, set) ==
    IF \A i \in 1..Len(chars) : chars[i] \in set
    THEN Len(chars)
    ELSE Len(chars)
         - (CHOOSE i \in 1..Len(chars) :
                chars[i] \notin set /\ \A j \in (i + 1)..Len(chars) : chars[j] \in set)

DecimalDigits == {"0", "1", "2", "3", "4", "5", "6", "7", "8", "9"}

HexDigits == DecimalDigits \cup {"a", "b", "c", "d", "e", "f",
                                 "A", "B", "C", "D", "E", "F"}

DigitValue(c) ==
    CASE c = "0" -> 0 [] c = "1" -> 1 [] c = "2" -> 2 [] c = "3" -> 3
      [] c = "4" -> 4 [] c = "5" -> 5 [] c = "6" -> 6 [] c = "7" -> 7
      [] c = "8" -> 8 [] c = "9" -> 9
      [] c \in {"a", "A"} -> 10 [] c \in {"b", "B"} -> 11
      [] c \in {"c", "C"} -> 12 [] c \in {"d", "D"} -> 13
      [] c \in {"e", "E"} -> 14 [] c \in {"f", "F"} -> 15

DigitChar(d) == <<"0", "1", "2", "3", "4", "5", "6", "7", "8", "9">>[d + 1]

Zeros(n) == [i \in 1..n |-> "0"]

\* The value of a short digit string (one that fits a machine integer).
RECURSIVE SmallValue(_)
SmallValue(digits) ==
    IF digits = <<>> THEN 0
    ELSE SmallValue(Take(digits, Len(digits) - 1)) * 10 + DigitValue(digits[Len(digits)])

\* The decimal digit string of a small natural number.
RECURSIVE IntChars(_)
IntChars(n) ==
    IF n < 10 THEN <<DigitChar(n)>>
    ELSE IntChars(n \div 10) \o <<DigitChar(n % 10)>>

\* The number written as the integer literal n.
Num(n) == Finite(IF n < 0 THEN -1 ELSE 1, IntChars(IF n < 0 THEN -n ELSE n), <<>>)

\* A natural number of any size is the sequence of its limbs, its digits in
\* base 10^LimbDigits, the least significant first and the most significant
\* not 0; zero is <<>>.
LimbDigits == 3

LimbBase == 1000

\* LimbBase^0 .. LimbBase^3: a sum of products of two limbs has four limbs
\* at most.
LimbPowers == <<1, 1000, 1000000, 1000000000>>

BigTrim(a) == Take(a, Len(a) - SuffixLen(a, {0}))

Limb(a, i) == IF i <= Len(a) THEN a[i] ELSE 0

\* The natural number written as a decimal digit string.
Big(digits) ==
    BigTrim([i \in 1..((Len(digits) + LimbDigits - 1) \div LimbDigits) |->
                SmallValue(SubSeq(digits,
                                  IF Len(digits) - LimbDigits * i + 1 > 1
                                  THEN Len(digits) - LimbDigits * i + 1 ELSE 1,
                                  Len(digits) - LimbDigits * (i - 1)))])

\* Decimal digit p of a, counted from the least significant, p = 0.
BigDecimalDigit(a, p) ==
    (a[(p \div LimbDigits) + 1] \div <<1, 10, 100>>[(p % LimbDigits) + 1]) % 10

\* The decimal digit string of a natural number, most significant first;
\* <<>> for zero.
BigChars(a) ==
    [p \in 1..(LimbDigits * Len(a) - (IF a = <<>> \/ a[Len(a)] >= 100 THEN 0
                                      ELSE IF a[Len(a)] >= 10 THEN 1 ELSE 2)) |->
        DigitChar(BigDecimalDigit(a, LimbDigits * Len(a)
                     - (IF a = <<>> \/ a[Len(a)] >= 100 THEN 0
                        ELSE IF a[Len(a)] >= 10 THEN 1 ELSE 2) - p))]

\* -1, 0 or 1 as a is less than, equal to or greater than b
BigCmp(a, b) ==
    IF Len(a) > Len(b) THEN 1
    ELSE IF Len(a) < Len(b) THEN -1
    ELSE IF \A i \in 1..Len(a) : a[i] = b[i] THEN 0
    ELSE IF \E i \in 1..Len(a) :
                a[i] > b[i] /\ \A j \in (i + 1)..Len(a) : a[j] = b[j]
    THEN 1
    ELSE -1

\* Whether the sum of a and b carries into limb i.
Carries(a, b, i) ==
    \E j \in 1..(i - 1) :
        /\ Limb(a, j) + Limb(b, j) >= LimbBase
        /\ \A m \in (j + 1)..(i - 1) : Limb(a, m) + Limb(b, m) = LimbBase - 1

BigAdd(a, b) ==
    BigTrim([i \in 1..((IF Len(a) > Len(b) THEN Len(a) ELSE Len(b)) + 1) |->
                (Limb(a, i) + Limb(b, i) + (IF Carries(a, b, i) THEN 1 ELSE 0))
                % LimbBase])

\* Whether the difference of a and b borrows from limb i.
Borrows(a, b, i) ==
    \E j \in 1..(i - 1) :
        /\ Limb(a, j) < Limb(b, j)
        /\ \A m \in (j + 1)..(i - 1) : Limb(a, m) = Limb(b, m)

\* a - b, for a >= b
BigSub(a, b) ==
    BigTrim([i \in 1..Len(a) |->
                (a[i] - Limb(b, i) - (IF Borrows(a, b, i) THEN 1 ELSE 0) + LimbBase)
                % LimbBase])

Times2(a) == BigAdd(a, a)

\* The sum of f[i] for i from lo to hi.
RECURSIVE Sum(_, _, _)
Sum(f, lo, hi) ==
    IF lo > hi THEN 0
    ELSE IF lo = hi THEN f[lo]
    ELSE Sum(f, lo, (lo + hi) \div 2) + Sum(f, ((lo + hi) \div 2) + 1, hi)

\* The sum of the natural numbers terms[lo] .. terms[hi].
RECURSIVE BigSum(_, _, _)
BigSum(terms, lo, hi) ==
    IF lo = hi THEN terms[lo]
    ELSE BigAdd(BigSum(terms, lo, (lo + hi) \div 2),
                BigSum(terms, ((lo + hi) \div 2) + 1, hi))

\* The sum of the products of a limb of a and a limb of b that weigh
\* LimbBase^(i - 1), for the limbs from to through of a.
Column(a, b, i, from, through) ==
    Sum([j \in from..through |-> a[j] * b[i + 1 - j]], from, through)

\* The natural number whose limb i is limb t (from 0) of sums[i], times
\* LimbBase^t.
Spread(sums, t) ==
    [i \in 1..(Len(sums) + t) |->
        IF i <= t THEN 0 ELSE (sums[i - t] \div LimbPowers[t + 1]) % LimbBase]

\* The natural number that is the sum of sums[i] * LimbBase^(i - 1).
Carried(sums) ==
    BigSum([t \in 0..(Len(LimbPowers) - 1) |-> BigTrim(Spread(sums, t))],
           0, Len(LimbPowers) - 1)

BigMul(a, b) ==
    IF a = <<>> \/ b = <<>> THEN <<>>
    ELSE Carried([i \in 1..(Len(a) + Len(b)) |->
                     Column(a, b, i, IF i + 1 - Len(b) > 1 THEN i + 1 - Len(b) ELSE 1,
                            IF i < Len(a) THEN i ELSE Len(a))])

\* 2^n
RECURSIVE BigPow2(_)
BigPow2(n) ==
    IF n < 9 THEN <<<<1, 2, 4, 8, 16, 32, 64, 128, 256>>[n + 1]>>
    ELSE BigMul(BigPow2(n \div 2), BigPow2(n - n \div 2))

\* a * 10^n
BigMulPow10(a, n) == Big(BigChars(a) \o Zeros(n))

\* The value of a digit string in the radix 2^bits.
RECURSIVE PowerOfTwoValue(_, _)
PowerOfTwoValue(digits, bits) ==
    IF Len(digits) <= 1 THEN BigTrim([i \in 1..Len(digits) |-> DigitValue(digits[i])])
    ELSE BigSum(<<BigMul(PowerOfTwoValue(Take(digits, Len(digits) \div 2), bits),
                         BigPow2(bits * (Len(digits) - Len(digits) \div 2))),
                  PowerOfTwoValue(Drop(digits, Len(digits) \div 2), bits)>>, 1, 2)

\* The value of a digit string in the given radix: 2, 10 or 16.
DigitsValue(digits, radix) ==
    IF radix = 10 THEN Big(digits)
    ELSE PowerOfTwoValue(digits, IF radix = 16 THEN 4 ELSE 1)

\* 2^52
TwoTo52 == <<496, 370, 627, 599, 503, 4>>

\* The double's least binary exponent: the unit of the subnormal numbers is
\* 2^MinExponent; its greatest: a 53-bit significand times 2^MaxExponent.
MinExponent == -1074

MaxExponent == 971

Precision == 53

\* A binary exponent e with 2^e <= a / b, from the lengths of a and b: they
\* put a / b above 10^(length of a - length of b - 1), and
\* 3.321 < log2 10 < 3.322.
BinaryEstimate(l) ==
    IF l >= 1 THEN ((l - 1) * 3321) \div 1000
    ELSE -(((1 - l) * 3322 + 999) \div 1000)

\* a / b * 2^e brought to b <= a < 2b by powers of two, its value unchanged.
RECURSIVE BinaryScale(_, _, _)
BinaryScale(a, b, e) ==
    IF BigCmp(a, b) < 0 THEN BinaryScale(Times2(a), b, e - 1)
    ELSE IF BigCmp(BigSub(a, b), b) >= 0 THEN BinaryScale(a, Times2(b), e + 1)
    ELSE [a |-> a, b |-> b, e |-> e]

\* a / b with the power of two 2^e taken out of it.
BinaryJump(a, b, e) ==
    BinaryScale(BigMul(a, BigPow2(IF e < 0 THEN -e ELSE 0)),
                BigMul(b, BigPow2(IF e > 0 THEN e ELSE 0)), e)

\* a / b as scaled.a / scaled.b * 2^scaled.e, scaled.b <= scaled.a < 2 scaled.b
BinaryNormal(a, b) ==
    BinaryJump(a, b, BinaryEstimate(Len(BigChars(a)) - Len(BigChars(b))))

\* The first p binary digits of a / b, for a < 2b, and what is left of a
\* (at the scale of half a unit in the last place).
RECURSIVE BinaryDigits(_, _, _)
BinaryDigits(a, b, p) ==
    IF p = 0 THEN [bits |-> <<>>, a |-> a]
    ELSE IF p = 1
    THEN [bits |-> IF BigCmp(a, b) >= 0 THEN <<"1">> ELSE <<"0">>,
          a |-> Times2(IF BigCmp(a, b) >= 0 THEN BigSub(a, b) ELSE a)]
    ELSE LET first == BinaryDigits(a, b, p \div 2)
             rest == BinaryDigits(first.a, b, p - p \div 2)
         IN  [bits |-> first.bits \o rest.bits, a |-> rest.a]

\* Round to nearest, ties to even: the significand of p binary digits for
\* a / b, given its digits and what they leave; a tie leaves a = b.
RoundHalfEven(digits, b) ==
    BigAdd(DigitsValue(digits.bits, 2),
           IF BigCmp(digits.a, b)
              >= (IF digits.bits # <<>> /\ digits.bits[Len(digits.bits)] = "1"
                  THEN 0 ELSE 1)
           THEN <<1>> ELSE <<>>)

\* The double nearest to scaled.a / scaled.b * 2^scaled.e, as f * 2^q, with
\* p binary digits.
RoundTo(scaled, p) ==
    IF p < 0 THEN [f |-> <<>>, q |-> MinExponent]
    ELSE [f |-> RoundHalfEven(BinaryDigits(scaled.a, scaled.b, p), scaled.b),
          q |-> scaled.e + 1 - p]

RoundScaled(scaled) ==
    RoundTo(scaled, IF scaled.e + 1 - Precision >= MinExponent
                    THEN Precision ELSE scaled.e + 1 - MinExponent)

\* f * 2^q with f < 2^53
Renormal(x) == IF x.f = Times2(TwoTo52) THEN [f |-> TwoTo52, q |-> x.q + 1] ELSE x

\* The double nearest to n / d, n > 0, as f * 2^q with f < 2^53.
NearestDouble(n, d) == Renormal(RoundScaled(BinaryNormal(n, d)))

\* Shortest digits (Number::toString step 5): r / s is the double and
\* (r - mm) / s .. (r + mp) / s the interval that reads back as it, both
\* ends included when the significand is even.  pow[n] is 2^n.
IntervalOf(x, up, down, wide, pow) ==
    [r |-> BigMul(x.f, pow[up + wide]), s |-> pow[down + wide],
     mp |-> pow[up + wide - 1], mm |-> pow[up], k |-> 0, even |-> (x.f = <<>> \/ x.f[1] % 2 = 0)]

IntervalAt(x, up, down, wide) ==
    IntervalOf(x, up, down, wide,
               [n \in {up, up + wide - 1, up + wide, down + wide} |-> BigPow2(n)])

Interval(x) ==
    IntervalAt(x, IF x.q > 0 THEN x.q ELSE 0, IF x.q < 0 THEN -x.q ELSE 0,
               IF x.f = TwoTo52 /\ x.q # MinExponent THEN 2 ELSE 1)

\* (r + mp) / s >= 1, or > 1 when the end is not included.
AboveOne(v) == BigCmp(BigAdd(v.r, v.mp), v.s) >= (IF v.even THEN 0 ELSE 1)

\* The interval with s times 10^up, and r, mp and mm times 10^down.
Scaled(v, up, down) ==
    [f \in DOMAIN v |->
        IF f = "s" THEN BigMulPow10(v[f], up)
        ELSE IF f \in {"r", "mp", "mm"} THEN BigMulPow10(v[f], down)
        ELSE IF f = "k" THEN v.k + up - down
        ELSE v[f]]

\* The interval scaled by the power of ten that the lengths of its upper end
\* and of s suggest.
DecimalJump(v) ==
    Scaled(v,
           IF Len(BigChars(BigAdd(v.r, v.mp))) > Len(BigChars(v.s))
           THEN Len(BigChars(BigAdd(v.r, v.mp))) - Len(BigChars(v.s)) ELSE 0,
           IF Len(BigChars(BigAdd(v.r, v.mp))) < Len(BigChars(v.s))
           THEN Len(BigChars(v.s)) - Len(BigChars(BigAdd(v.r, v.mp))) ELSE 0)

\* The interval scaled by the power of ten 10^k that puts its upper end in
\* 0.1 .. 1.
RECURSIVE DecimalScale(_)
DecimalScale(v) ==
    IF AboveOne(v) THEN DecimalScale(Scaled(v, 1, 0))
    ELSE IF ~AboveOne(Scaled(v, 0, 1)) THEN DecimalScale(Scaled(v, 0, 1))
    ELSE v

\* a divided by b, for a < 10b: the quotient digit and the remainder.
RECURSIVE BigDivMod(_, _, _)
BigDivMod(a, b, quotient) ==
    IF BigCmp(a, b) < 0 THEN [quotient |-> quotient, rest |-> a]
    ELSE BigDivMod(BigSub(a, b), b, quotient + 1)

\* The last digit, when both quotient and quotient + 1 end a digit string
\* inside the interval: the nearer to the double, the even one on a tie.
LastDigit(quotient, rest, s) ==
    IF BigCmp(Times2(rest), s) < (IF quotient % 2 = 0 THEN 1 ELSE 0)
    THEN quotient ELSE quotient + 1

\* The digits of the shortest decimal in the interval v, as 0.digits.
RECURSIVE ShortestDigits(_)
\* The digits from the next one on: step is the next digit and what it
\* leaves of r, low and high tell whether the digit, the digit plus one,
\* ends a decimal in the interval.
NextDigits(v, step, low, high) ==
    IF ~low /\ ~high
    THEN <<step.quotient>> \o ShortestDigits([v EXCEPT !.r = step.rest])
    ELSE IF low /\ ~high THEN <<step.quotient>>
    ELSE IF high /\ ~low THEN <<step.quotient + 1>>
    ELSE <<LastDigit(step.quotient, step.rest, v.s)>>

NextStep(v, step) ==
    NextDigits(v, step, BigCmp(step.rest, v.mm) < (IF v.even THEN 1 ELSE 0),
               AboveOne([v EXCEPT !.r = step.rest]))

NextScaled(v) == NextStep(v, BigDivMod(v.r, v.s, 0))

ShortestDigits(v) == NextScaled(Scaled(v, 0, 1))

\* The finite number sign * 0.digits * 10^k, digits a digit string that
\* neither starts nor ends with 0.
Scientific(sign, digits, k) ==
    Finite(sign,
           IF k <= 0 THEN <<"0">>
           ELSE IF k >= Len(digits) THEN digits \o Zeros(k - Len(digits))
           ELSE Take(digits, k),
           IF k >= Len(digits) THEN <<>>
           ELSE IF k <= 0 THEN Zeros(-k) \o digits
           ELSE Drop(digits, k))

SignedZero(sign) == IF sign < 0 THEN NegZero ELSE Zero

\* The number sign * 0.digits * 10^v.k, digits the shortest of v.
Shortest(sign, v, digits) ==
    Scientific(sign, [i \in 1..Len(digits) |-> DigitChar(digits[i])], v.k)

ShortestIn(sign, v) == Shortest(sign, v, ShortestDigits(v))

\* The double f * 2^q as a number.
FromDouble(sign, x) ==
    IF x.f = <<>> THEN SignedZero(sign)
    ELSE IF x.q > MaxExponent THEN Infinity(sign)
    ELSE ShortestIn(sign, DecimalScale(DecimalJump(Interval(x))))

\* A decimal of at most ExactDigits significant digits whose first digit
\* stands between 10^-ExactRange and 10^ExactRange is the shortest that
\* reads back as its double.
ExactDigits == 15

ExactRange == 300

\* Beyond these powers of ten every decimal rounds to Infinity, to zero.
OverflowRange == 309

UnderflowRange == -324

\* The number nearest to sign * 0.digits * 10^k, digits as in Scientific.
Nearest(sign, digits, k) ==
    IF k > OverflowRange THEN Infinity(sign)
    ELSE IF k <= UnderflowRange THEN SignedZero(sign)
    ELSE IF Len(digits) <= ExactDigits /\ k >= -ExactRange /\ k <= ExactRange
    THEN Scientific(sign, digits, k)
    ELSE FromDouble(sign,
             NearestDouble(
                 Big(digits \o Zeros(IF k > Len(digits) THEN k - Len(digits) ELSE 0)),
                 Big(<<"1">> \o Zeros(IF k < Len(digits) THEN Len(digits) - k ELSE 0))))

\* The digits the host keeps of a digit string that ends in no zero: a digit
\* after the first MaxSignificantDigits cannot change the nearest double but
\* by not being zero, and one digit 1 stands for them all.
MaxSignificantDigits == 772

Significant(digits) ==
    IF Len(digits) > MaxSignificantDigits
    THEN Take(digits, MaxSignificantDigits) \o <<"1">>
    ELSE digits

\* The number nearest to sign * digits * 10^scale, digits any digit string.
Decimal(sign, digits, scale) ==
    LET significant ==
            SubSeq(digits, PrefixLen(digits, {"0"}) + 1,
                   Len(digits) - SuffixLen(digits, {"0"}))
    IN  IF significant = <<>> THEN SignedZero(sign)
        ELSE Nearest(sign, Significant(significant),
                     Len(digits) - PrefixLen(digits, {"0"}) + scale)

(***************************************************************************)
(* The error-code table and its lookup.                                    *)
(***************************************************************************)
standardErrorCodes ==
    [ NotModified |-> 304,
      InvalidRequest |-> 400,
      NotAuthenticated |-> 401,
      NotAuthorized |-> 403,
      NotFound |-> 404,
      Conflict |-> 409,
      RequestTooLarge |-> 413,
      TooManyRequests |-> 429,
      InternalError |-> 500,
      ServiceUnavailable |-> 503,
      NotAdmin |-> 403 ]

\* standardErrorCodes is an object literal: a key it does not own is looked
\* up on Object.prototype, whose members are functions (or, for __proto__,
\* the prototype object itself).
ObjectPrototypeKeys ==
    { "constructor", "hasOwnProperty", "isPrototypeOf", "propertyIsEnumerable",
      "toLocaleString", "toString", "valueOf", "__proto__",
      "__defineGetter__", "__defineSetter__", "__lookupGetter__",
      "__lookupSetter__" }

Inherited(key) ==
    [t |-> IF key = "__proto__" THEN "object" ELSE "function", ref |-> key]

\* standardErrorCodes[code]
LookupCode(code) ==
    IF code \in DOMAIN standardErrorCodes THEN Num(standardErrorCodes[code])
    ELSE IF code \in ObjectPrototypeKeys THEN Inherited(code)
    ELSE Undefined

\* const status = error.code && standardErrorCodes[error.code];  status || 500
ErrorStatus(error) ==
    LET code == Get(error, "code")
        status == IF Truthy(code) THEN LookupCode(code.a) ELSE code
    IN  IF Truthy(status) THEN status ELSE Num(500)

(***************************************************************************)
(* Primitive coercion: parseBoolean of the plugin, and the host's parseInt *)
(* and parseFloat as the plugin calls them (one argument, no radix).  A    *)
(* character is a one-character string; one that cannot be written so is  *)
(* named by its code point, as in "U+00A0".                                *)
(***************************************************************************)
\* The letters a to z and their capitals.
SmallLetters == <<"a", "b", "c", "d", "e", "f", "g", "h", "i", "j", "k", "l", "m",
                  "n", "o", "p", "q", "r", "s", "t", "u", "v", "w", "x", "y", "z">>

CapitalLetters == <<"A", "B", "C", "D", "E", "F", "G", "H", "I", "J", "K", "L", "M",
                    "N", "O", "P", "Q", "R", "S", "T", "U", "V", "W", "X", "Y", "Z">>

\* LoweredTo[j] is the set of the characters that toLowerCase turns into the
\* letter SmallLetters[j]: the letter, its capital and, for k, the Kelvin
\* sign.  Any other character becomes one character that is no letter a to
\* z, or more than one (U+0130 becomes i followed by U+0307); none becomes
\* the empty string.  This holds of every version of the character tables.
LoweredTo ==
    [j \in 1..Len(SmallLetters) |->
        {SmallLetters[j], CapitalLetters[j]}
        \cup (IF SmallLetters[j] = "k" THEN {"U+212A"} ELSE {})]

\* value.toLowerCase() === word, for a word of the letters a to z: as many
\* characters as the word has letters, each lowered to its letter.
LowerValueIs(chars, word) ==
    /\ Len(chars) = Len(word)
    /\ \A i \in 1..Len(word) :
          \E j \in 1..Len(SmallLetters) :
              SmallLetters[j] = word[i] /\ chars[i] \in LoweredTo[j]

MutParseBooleanDefaultsFalse(value) ==
    IF IsString(value) /\ LowerValueIs(value.s, <<"t", "r", "u", "e">>)
    THEN Bool(TRUE)
    ELSE Bool(FALSE)

parseBoolean(value) ==
    IF IsString(value)
    THEN IF LowerValueIs(value.s, <<"t", "r", "u", "e">>) THEN Bool(TRUE)
         ELSE IF LowerValueIs(value.s, <<"f", "a", "l", "s", "e">>) THEN Bool(FALSE)
         ELSE Undefined
    ELSE Undefined

\* The characters parseInt and parseFloat skip at the start of the string:
\* WhiteSpace and LineTerminator of the language.
WhiteSpace ==
    { "\t", "\n", "U+000B", "\f", "\r", " ", "U+00A0", "U+1680",
      "U+2000", "U+2001", "U+2002", "U+2003", "U+2004", "U+2005", "U+2006",
      "U+2007", "U+2008", "U+2009", "U+200A", "U+2028", "U+2029", "U+202F",
      "U+205F", "U+3000", "U+FEFF" }

\* The string without its leading white space.
TrimStart(chars) == Drop(chars, PrefixLen(chars, WhiteSpace))

\* -1 for a leading "-", otherwise 1.
SignOf(chars) == IF chars # <<>> /\ chars[1] = "-" THEN -1 ELSE 1

\* The string without its leading sign, if it has one.
Unsigned(chars) ==
    IF chars # <<>> /\ chars[1] \in {"+", "-"} THEN Drop(chars, 1) ELSE chars

\* parseInt(string): leading white space, a sign, a 0x prefix, then the
\* longest run of digits; NaN when there is none.
parseInt(value) ==
    LET unsigned == Unsigned(TrimStart(value.s))
        hex == StartsWith(unsigned, <<"0", "x">>) \/ StartsWith(unsigned, <<"0", "X">>)
        body == IF hex THEN Drop(unsigned, 2) ELSE unsigned
        digits == Take(body, PrefixLen(body, IF hex THEN HexDigits ELSE DecimalDigits))
    IN  IF digits = <<>> THEN NaN
        ELSE Decimal(SignOf(TrimStart(value.s)),
                     IF hex THEN BigChars(DigitsValue(digits, 16)) ELSE digits, 0)

\* The digits before the point, the digits after it, and what follows.
ScanMantissa(chars) ==
    LET whole == Take(chars, PrefixLen(chars, DecimalDigits))
        afterWhole == Drop(chars, Len(whole))
    IN  IF afterWhole # <<>> /\ afterWhole[1] = "."
        THEN LET afterPoint == Drop(afterWhole, 1)
                 fraction == Take(afterPoint, PrefixLen(afterPoint, DecimalDigits))
             IN  [whole |-> whole, fraction |-> fraction,
                  rest |-> Drop(afterPoint, Len(fraction))]
        ELSE [whole |-> whole, fraction |-> <<>>, rest |-> afterWhole]

\* The greatest exponent parseFloat reads; a greater one counts as this one.
\* No string the host holds (fewer than 2^29 characters) has a mantissa that
\* brings such an exponent back into the range of the doubles.
ExponentLimit == 1073741823

\* The value of the exponent's digits, at most ExponentLimit.
ExponentValue(digits) ==
    LET significant == Drop(digits, PrefixLen(digits, {"0"}))
    IN  IF Len(significant) > 10 THEN ExponentLimit
        ELSE IF Len(significant) < 10 THEN SmallValue(significant)
        ELSE IF SmallValue(Take(significant, 9)) > ExponentLimit \div 10
                \/ (SmallValue(Take(significant, 9)) = ExponentLimit \div 10
                    /\ DigitValue(significant[10]) > ExponentLimit % 10)
        THEN ExponentLimit
        ELSE SmallValue(significant)

\* The exponent that follows the mantissa: e or E, a sign, digits.  An e
\* with no digits after it is not part of the number.
ScanExponent(chars) ==
    IF chars # <<>> /\ chars[1] \in {"e", "E"}
    THEN LET body == Unsigned(Drop(chars, 1))
             digits == Take(body, PrefixLen(body, DecimalDigits))
         IN  SignOf(Drop(chars, 1)) * ExponentValue(digits)
    ELSE 0

\* parseFloat(string): leading white space, then the longest prefix that is
\* a decimal literal (sign, Infinity or digits with an optional fraction and
\* exponent); NaN when there is none.
parseFloat(value) ==
    LET sign == SignOf(TrimStart(value.s))
        unsigned == Unsigned(TrimStart(value.s))
        m == ScanMantissa(unsigned)
    IN  IF StartsWith(unsigned, <<"I", "n", "f", "i", "n", "i", "t", "y">>)
        THEN Infinity(sign)
        ELSE IF m.whole = <<>> /\ m.fraction = <<>> THEN NaN
        ELSE Decimal(sign, m.whole \o m.fraction,
                     ScanExponent(m.rest) - Len(m.fraction))

(***************************************************************************)
(* Request binders: one per route, from the raw request to the typed       *)
(* request handed to the API service.                                      *)
(***************************************************************************)
BindGetApiInfo == EmptyObject

BindGetWidgets(query) ==
    IF IsString(Get(query, "q"))
    THEN Put(EmptyObject, "query", Get(query, "q"))
    ELSE EmptyObject

BindCreateWidget(body) == Put(EmptyObject, "widget", body)

BindGetWidget(params, headers) ==
    LET withId == IF IsString(Get(params, "id"))
                  THEN Put(EmptyObject, "id", parseInt(Get(params, "id")))
                  ELSE EmptyObject
    IN  Put(withId, "ifNotETag", Get(headers, "if-none-match"))

BindDeleteWidget(params, headers) ==
    LET withId == IF IsString(Get(params, "id"))
                  THEN Put(EmptyObject, "id", parseInt(Get(params, "id")))
                  ELSE EmptyObject
    IN  Put(withId, "ifETag", Get(headers, "if-match"))

BindGetWidgetBatch(body) == Put(EmptyObject, "ids", body)

\* Reading .field of a body that is undefined or null throws a TypeError;
\* BodyReadable is the guard under which BindMirrorFields is reached.
BodyReadable(body) == NotNullish(body)

BindMirrorFields(body) ==
    Put(Put(EmptyObject, "field", Get(body, "field")),
        "matrix", Get(body, "matrix"))

MutBindCheckQueryDefaults(query) ==
    LET r1 == IF IsString(Get(query, "string"))
              THEN Put(EmptyObject, "string", Get(query, "string"))
              ELSE EmptyObject
        r2 == Put(r1, "boolean", MutParseBooleanDefaultsFalse(Get(query, "boolean")))
        r3 == IF IsString(Get(query, "double"))
              THEN Put(r2, "double", parseFloat(Get(query, "double")))
              ELSE r2
        r4 == IF IsString(Get(query, "int32"))
              THEN Put(r3, "int32", parseInt(Get(query, "int32")))
              ELSE r3
        r5 == IF IsString(Get(query, "int64"))
              THEN Put(r4, "int64", parseInt(Get(query, "int64")))
              ELSE r4
        r6 == IF IsString(Get(query, "decimal"))
              THEN Put(r5, "decimal", parseFloat(Get(query, "decimal")))
              ELSE r5
        r7 == IF IsString(Get(query, "enum"))
              THEN Put(r6, "enum", Get(query, "enum"))
              ELSE r6
    IN  IF IsString(Get(query, "datetime"))
        THEN Put(r7, "datetime", Get(query, "datetime"))
        ELSE r7

BindCheckQuery(query) ==
    LET r1 == IF IsString(Get(query, "string"))
              THEN Put(EmptyObject, "string", Get(query, "string"))
              ELSE EmptyObject
        r2 == IF IsString(Get(query, "boolean"))
              THEN Put(r1, "boolean", parseBoolean(Get(query, "boolean")))
              ELSE r1
        r3 == IF IsString(Get(query, "double"))
              THEN Put(r2, "double", parseFloat(Get(query, "double")))
              ELSE r2
        r4 == IF IsString(Get(query, "int32"))
              THEN Put(r3, "int32", parseInt(Get(query, "int32")))
              ELSE r3
        r5 == IF IsString(Get(query, "int64"))
              THEN Put(r4, "int64", parseInt(Get(query, "int64")))
              ELSE r4
        r6 == IF IsString(Get(query, "decimal"))
              THEN Put(r5, "decimal", parseFloat(Get(query, "decimal")))
              ELSE r5
        r7 == IF IsString(Get(query, "enum"))
              THEN Put(r6, "enum", Get(query, "enum"))
              ELSE r6
    IN  IF IsString(Get(query, "datetime"))
        THEN Put(r7, "datetime", Get(query, "datetime"))
        ELSE r7

BindCheckPath(params) ==
    LET r1 == IF IsString(Get(params, "string"))
              THEN Put(EmptyObject, "string", Get(params, "string"))
              ELSE EmptyObject
        r2 == IF IsString(Get(params, "boolean"))
              THEN Put(r1, "boolean", parseBoolean(Get(params, "boolean")))
              ELSE r1
        r3 == IF IsString(Get(params, "double"))
              THEN Put(r2, "double", parseFloat(Get(params, "double")))
              ELSE r2
        r4 == IF IsString(Get(params, "int32"))
              THEN Put(r3, "int32", parseInt(Get(params, "int32")))
              ELSE r3
        r5 == IF IsString(Get(params, "int64"))
              THEN Put(r4, "int64", parseInt(Get(params, "int64")))
              ELSE r4
        r6 == IF IsString(Get(params, "decimal"))
              THEN Put(r5, "decimal", parseFloat(Get(params, "decimal")))
              ELSE r5
        r7 == IF IsString(Get(params, "enum"))
              THEN Put(r6, "enum", Get(params, "enum"))
              ELSE r6
    IN  IF IsString(Get(params, "datetime"))
        THEN Put(r7, "datetime", Get(params, "datetime"))
        ELSE r7

(***************************************************************************)
(* Response shapers: one per route, from the typed result to the calls the *)
(* handler makes on the reply and the way the handler ends.                *)
(***************************************************************************)
StatusCall(code) == [op |-> "status", name |-> "", arg |-> code]

HeaderCall(name, value) == [op |-> "header", name |-> name, arg |-> value]

SendCall(payload) == [op |-> "send", name |-> "", arg |-> payload]

ContractViolation == "Result must have an error or value."

\* The handler returns after making these calls.
Returned(replyCalls) == [calls |-> replyCalls, raised |-> "none"]

\* The handler makes these calls and then throws.
Thrown(replyCalls) == [calls |-> replyCalls, raised |-> ContractViolation]

\* reply.status(status || 500).send(result.error); return;
ErrorBranch(error) ==
    Returned(<<StatusCall(ErrorStatus(error)), SendCall(error)>>)

ShapeGetApiInfo(result) ==
    IF Truthy(result.error) THEN ErrorBranch(result.error)
    ELSE IF Truthy(result.value) THEN Returned(<<SendCall(result.value)>>)
    ELSE Returned(<<>>)

ShapeGetWidgets(result) ==
    IF Truthy(result.error) THEN ErrorBranch(result.error)
    ELSE IF Truthy(result.value)
    THEN Thrown(<<StatusCall(Num(200)),
                  SendCall([t |-> "object",
                            widgets |-> Get(result.value, "widgets")])>>)
    ELSE Thrown(<<>>)

MutShapeCreateWidgetSendsFirst(result) ==
    IF Truthy(result.error) THEN ErrorBranch(result.error)
    ELSE IF Truthy(result.value)
    THEN LET url == Get(result.value, "url")
             eTag == Get(result.value, "eTag")
             widget == Get(result.value, "widget")
         IN  Returned(
                 (IF Truthy(widget)
                  THEN <<StatusCall(Num(201)), SendCall(widget)>> ELSE <<>>)
                 \o (IF NotNullish(url) THEN <<HeaderCall("Location", url)>> ELSE <<>>)
                 \o (IF NotNullish(eTag) THEN <<HeaderCall("eTag", eTag)>> ELSE <<>>))
    ELSE Thrown(<<>>)

ShapeCreateWidget(result) ==
    IF Truthy(result.error) THEN ErrorBranch(result.error)
    ELSE IF Truthy(result.value)
    THEN LET url == Get(result.value, "url")
             eTag == Get(result.value, "eTag")
             widget == Get(result.value, "widget")
         IN  Returned(
                 (IF NotNullish(url) THEN <<HeaderCall("Location", url)>> ELSE <<>>)
                 \o (IF NotNullish(eTag) THEN <<HeaderCall("eTag", eTag)>> ELSE <<>>)
                 \o (IF Truthy(widget)
                     THEN <<StatusCall(Num(201)), SendCall(widget)>> ELSE <<>>))
    ELSE Thrown(<<>>)

MutShapeGetWidgetNotModifiedFirst(result) ==
    IF Truthy(result.error) THEN ErrorBranch(result.error)
    ELSE IF Truthy(result.value)
    THEN LET eTag == Get(result.value, "eTag")
             header == IF NotNullish(eTag) THEN <<HeaderCall("eTag", eTag)>> ELSE <<>>
         IN  IF Truthy(Get(result.value, "notModified"))
             THEN Returned(header \o <<StatusCall(Num(304))>>)
             ELSE IF Truthy(Get(result.value, "widget"))
             THEN Returned(header \o <<StatusCall(Num(200)),
                                       SendCall(Get(result.value, "widget"))>>)
             ELSE Thrown(header)
    ELSE Thrown(<<>>)

ShapeGetWidget(result) ==
    IF Truthy(result.error) THEN ErrorBranch(result.error)
    ELSE IF Truthy(result.value)
    THEN LET eTag == Get(result.value, "eTag")
             header == IF NotNullish(eTag) THEN <<HeaderCall("eTag", eTag)>> ELSE <<>>
         IN  IF Truthy(Get(result.value, "widget"))
             THEN Returned(header \o <<StatusCall(Num(200)),
                                       SendCall(Get(result.value, "widget"))>>)
             ELSE IF Truthy(Get(result.value, "notModified"))
             THEN Returned(header \o <<StatusCall(Num(304))>>)
             ELSE Thrown(header)
    ELSE Thrown(<<>>)

MutShapeDeleteWidgetConflictFirst(result) ==
    IF Truthy(result.error) THEN ErrorBranch(result.error)
    ELSE IF Truthy(result.value)
    THEN IF Truthy(Get(result.value, "conflict"))
         THEN Returned(<<StatusCall(Num(409))>>)
         ELSE IF Truthy(Get(result.value, "notFound"))
         THEN Returned(<<StatusCall(Num(404))>>)
         ELSE Returned(<<StatusCall(Num(204)), SendCall(EmptyObject)>>)
    ELSE Thrown(<<>>)

ShapeDeleteWidget(result) ==
    IF Truthy(result.error) THEN ErrorBranch(result.error)
    ELSE IF Truthy(result.value)
    THEN IF Truthy(Get(result.value, "notFound"))
         THEN Returned(<<StatusCall(Num(404))>>)
         ELSE IF Truthy(Get(result.value, "conflict"))
         THEN Returned(<<StatusCall(Num(409))>>)
         ELSE Returned(<<StatusCall(Num(204)), SendCall(EmptyObject)>>)
    ELSE Thrown(<<>>)

ShapeGetWidgetBatch(result) ==
    IF Truthy(result.error) THEN ErrorBranch(result.error)
    ELSE IF Truthy(result.value) /\ Truthy(Get(result.value, "results"))
    THEN Returned(<<StatusCall(Num(200)),
                    SendCall(Get(result.value, "results"))>>)
    ELSE Thrown(<<>>)

ShapeMirrorFields(result) ==
    IF Truthy(result.error) THEN ErrorBranch(result.error)
    ELSE IF Truthy(result.value)
    THEN Returned(<<StatusCall(Num(200)), SendCall(result.value)>>)
    ELSE Thrown(<<>>)

ShapeCheckQuery(result) ==
    IF Truthy(result.error) THEN ErrorBranch(result.error)
    ELSE IF Truthy(result.value)
    THEN Thrown(<<StatusCall(Num(200)), SendCall(result.value)>>)
    ELSE Thrown(<<>>)

ShapeCheckPath(result) ==
    IF Truthy(result.error) THEN ErrorBranch(result.error)
    ELSE IF Truthy(result.value)
    THEN Thrown(<<StatusCall(Num(200)), SendCall(result.value)>>)
    ELSE Thrown(<<>>)

(***************************************************************************)
(* The inputs: what a client can send and what the API service can return. *)
(***************************************************************************)
\* The longest `id` path segment a client sends.
MaxLen == 2

IdAlphabet == {"7", "-", ".", "U+3000"}

\* A path segment is never empty: the route would not match.
IdSegments == UNION {[1..n -> IdAlphabet] : n \in 1..MaxLen}

Chars_true == <<"T", "r", "u", "e">>

Chars_false == <<"f", "a", "l", "s", "e">>

\* The raw values of each checkQuery parameter; Undefined is an omitted one.
QuerySamples ==
    [ string   |-> {Undefined, Str(<<>>), Str(<<"a", "b">>)},
      boolean  |-> {Undefined, Str(Chars_true), Str(<<"n", "o">>)},
      double   |-> {Undefined, Str(<<"1", ".", "5">>), Str(<<"a", "b", "c">>)},
      int32    |-> {Undefined, Str(<<"\f", "1", "2">>), Str(<<"x", "1">>)},
      int64    |-> {Undefined, Str(<<"7", ".", "9">>), Str(<<>>)},
      decimal  |-> {Undefined, Str(<<"-", "2", "e", "1">>), Str(<<".">>)},
      enum     |-> {Undefined, Str(<<"m", "a", "y", "b", "e">>)},
      datetime |-> {Undefined, Str(<<"2", "0", "0", "1", "Z">>)} ]

\* The raw values of each checkPath segment; a segment is always there.
PathSamples ==
    [ string   |-> {Str(<<"a", "b">>), Str(<<" ">>)},
      boolean  |-> {Str(Chars_false), Str(<<"T", "R", "U", "E">>),
                    Str(<<"t", "r", "u", "U+00C9">>)},
      double   |-> {Str(<<".", "5">>), Str(<<"N", "a", "N">>)},
      int32    |-> {Str(<<"0", "x", "1", "f">>), Str(<<"-", "0">>),
                    Str(<<"a", "b", "c">>)},
      int64    |-> {Str(<<"U+00A0", "1", "2", "a">>), Str(<<"e", "5">>)},
      decimal  |-> {Str(<<"-", "I", "n", "f", "i", "n", "i", "t", "y">>),
                    Str(<<"1", ".", "5", "0">>)},
      enum     |-> {Str(<<"y", "e", "s">>)},
      datetime |-> {Str(<<"2", "0", "0", "1", "Z">>)} ]

CheckFields == DOMAIN QuerySamples

\* A parsed query string or parameter map: an object holding the supplied
\* names only.
RECURSIVE PutAll(_, _, _)
PutAll(obj, fields, raw) ==
    IF fields = {} THEN obj
    ELSE LET f == CHOOSE x \in fields : TRUE
             rest == PutAll(obj, fields \ {f}, raw)
         IN  IF raw[f] = Undefined THEN rest ELSE Put(rest, f, raw[f])

\* A repeated query parameter is parsed to an array, not a string.
RepeatedParameter == Ref("array of strings")

QValues == {Undefined, Str(<<>>), Str(<<"b", "l", "u", "e">>), RepeatedParameter}

ETagHeaders == {Undefined, Str(<<"v", "1">>)}

Widget == Ref("widget")

WidgetBodies == {Undefined, Widget}

IdsBodies == {Undefined, Ref("ids")}

MirrorBodies ==
    { Undefined, Null, EmptyObject,
      [t |-> "object", field |-> Ref("field"), matrix |-> Ref("matrix")] }

\* The codes an error can carry: the known ones, an unknown one, the empty
\* string, names of Object.prototype members, and none at all.
Codes ==
    {Undefined}
    \cup {Atom(c) : c \in DOMAIN standardErrorCodes}
    \cup {Atom("Teapot"), Atom(""), Atom("constructor"), Atom("__proto__")}

ErrorObject(code) ==
    IF code = Undefined
    THEN [t |-> "object", message |-> Atom("no code")]
    ELSE [t |-> "object", code |-> code]

Errors == {Undefined} \cup {ErrorObject(c) : c \in Codes}

ETags == {Undefined, Null, Str(<<>>), Str(<<"v", "2">>)}

Urls == {Undefined, Null, Str(<<"/", "w", "/", "1">>)}

Flags == {Undefined, Bool(FALSE), Bool(TRUE)}

\* The `value` arm of each method's result; Undefined is an empty arm.
Values ==
    [ getApiInfo     |-> {Undefined, Ref("api info")},
      getWidgets     |-> {Undefined, [t |-> "object", widgets |-> Ref("widgets")]},
      createWidget   |-> {Undefined}
                         \cup {[t |-> "object", widget |-> w, url |-> u, eTag |-> e] :
                                  w \in {Undefined, Widget}, u \in Urls, e \in ETags},
      getWidget      |-> {Undefined}
                         \cup {[t |-> "object", widget |-> w, eTag |-> e,
                                notModified |-> n] :
                                  w \in {Undefined, Widget}, e \in ETags, n \in Flags},
      deleteWidget   |-> {Undefined}
                         \cup {[t |-> "object", notFound |-> n, conflict |-> c] :
                                  n \in Flags, c \in Flags},
      getWidgetBatch |-> {Undefined, EmptyObject,
                          [t |-> "object", results |-> Ref("results")]},
      mirrorFields   |-> {Undefined, Ref("mirrored")},
      checkQuery     |-> {Undefined, Ref("echo")},
      checkPath      |-> {Undefined, Ref("echo")} ]

Methods == DOMAIN Values

Results(method) ==
    {[t |-> "object", error |-> e, value |-> v] : e \in Errors, v \in Values[method]}

(***************************************************************************)
(* The state of one request.  Nothing is kept between requests.            *)
(***************************************************************************)
VARIABLES
    pc,        \* "idle", "awaiting" (the API call is in flight) or "done"
    method,    \* the API method of the route that matched, or "none"
    req,       \* the raw request: query, params, headers, body
    request,   \* the typed request passed to the API service
    result,    \* the typed result the API service returned
    calls,     \* the calls the handler made on the reply, in order
    raised     \* the error the handler threw, or "none"

vars == <<pc, method, req, request, result, calls, raised>>

RawRequest(query, params, headers, body) ==
    [query |-> query, params |-> params, headers |-> headers, body |-> body]

NoRequest == RawRequest(EmptyObject, EmptyObject, EmptyObject, Undefined)

Init ==
    /\ pc = "idle"
    /\ method = "none"
    /\ req = NoRequest
    /\ request = Undefined
    /\ result = Undefined
    /\ calls = <<>>
    /\ raised = "none"

\* The handler runs up to its await: the typed request is dispatched.
Dispatch(m, raw, typed) ==
    /\ pc' = "awaiting"
    /\ method' = m
    /\ req' = raw
    /\ request' = typed
    /\ UNCHANGED <<result, calls, raised>>

\* reply.status(code) is the host framework's: given a code that is not a
\* number it either records it or throws, depending on the framework's
\* version.  When it throws, the handler ends there, before the send.
BadStatusCode == "FST_ERR_BAD_STATUS_CODE"

Outcomes(shaped) ==
    {shaped}
    \cup {[calls |-> Take(shaped.calls, i - 1), raised |-> BadStatusCode] :
             i \in {j \in DOMAIN shaped.calls :
                        /\ shaped.calls[j].op = "status"
                        /\ shaped.calls[j].arg.t # "number"}}

\* The awaited call resolves and the handler runs to its end.
Reply(res, shaped) ==
    \E outcome \in Outcomes(shaped) :
        /\ pc' = "done"
        /\ result' = res
        /\ calls' = outcome.calls
        /\ raised' = outcome.raised
        /\ UNCHANGED <<method, req, request>>

Awaiting(m) == pc = "awaiting" /\ method = m

DispatchGetApiInfo ==
    /\ pc = "idle"
    /\ Dispatch("getApiInfo", NoRequest, BindGetApiInfo)

ReplyGetApiInfo ==
    /\ Awaiting("getApiInfo")
    /\ \E res \in Results("getApiInfo") : Reply(res, ShapeGetApiInfo(res))

DispatchGetWidgets ==
    /\ pc = "idle"
    /\ \E q \in QValues :
        LET query == IF q = Undefined THEN EmptyObject ELSE Put(EmptyObject, "q", q)
        IN  Dispatch("getWidgets",
                     RawRequest(query, EmptyObject, EmptyObject, Undefined),
                     BindGetWidgets(query))

ReplyGetWidgets ==
    /\ Awaiting("getWidgets")
    /\ \E res \in Results("getWidgets") : Reply(res, ShapeGetWidgets(res))

DispatchCreateWidget ==
    /\ pc = "idle"
    /\ \E body \in WidgetBodies :
        Dispatch("createWidget",
                 RawRequest(EmptyObject, EmptyObject, EmptyObject, body),
                 BindCreateWidget(body))

ReplyCreateWidget ==
    /\ Awaiting("createWidget")
    /\ \E res \in Results("createWidget") : Reply(res, ShapeCreateWidget(res))

DispatchGetWidget ==
    /\ pc = "idle"
    /\ \E id \in IdSegments, tag \in ETagHeaders :
        LET params == Put(EmptyObject, "id", Str(id))
            headers == IF tag = Undefined THEN EmptyObject
                       ELSE Put(EmptyObject, "if-none-match", tag)
        IN  Dispatch("getWidget",
                     RawRequest(EmptyObject, params, headers, Undefined),
                     BindGetWidget(params, headers))

ReplyGetWidget ==
    /\ Awaiting("getWidget")
    /\ \E res \in Results("getWidget") : Reply(res, ShapeGetWidget(res))

DispatchDeleteWidget ==
    /\ pc = "idle"
    /\ \E id \in IdSegments, tag \in ETagHeaders :
        LET params == Put(EmptyObject, "id", Str(id))
            headers == IF tag = Undefined THEN EmptyObject
                       ELSE Put(EmptyObject, "if-match", tag)
        IN  Dispatch("deleteWidget",
                     RawRequest(EmptyObject, params, headers, Undefined),
                     BindDeleteWidget(params, headers))

ReplyDeleteWidget ==
    /\ Awaiting("deleteWidget")
    /\ \E res \in Results("deleteWidget") : Reply(res, ShapeDeleteWidget(res))

DispatchGetWidgetBatch ==
    /\ pc = "idle"
    /\ \E body \in IdsBodies :
        Dispatch("getWidgetBatch",
                 RawRequest(EmptyObject, EmptyObject, EmptyObject, body),
                 BindGetWidgetBatch(body))

ReplyGetWidgetBatch ==
    /\ Awaiting("getWidgetBatch")
    /\ \E res \in Results("getWidgetBatch") : Reply(res, ShapeGetWidgetBatch(res))

DispatchMirrorFields ==
    /\ pc = "idle"
    /\ \E body \in MirrorBodies :
        /\ BodyReadable(body)
        /\ Dispatch("mirrorFields",
                    RawRequest(EmptyObject, EmptyObject, EmptyObject, body),
                    BindMirrorFields(body))

\* The binder throws before anything is dispatched.
FailMirrorFields ==
    /\ pc = "idle"
    /\ \E body \in MirrorBodies :
        /\ ~BodyReadable(body)
        /\ pc' = "done"
        /\ method' = "mirrorFields"
        /\ req' = RawRequest(EmptyObject, EmptyObject, EmptyObject, body)
        /\ raised' = "TypeError"
        /\ UNCHANGED <<request, result, calls>>

ReplyMirrorFields ==
    /\ Awaiting("mirrorFields")
    /\ \E res \in Results("mirrorFields") : Reply(res, ShapeMirrorFields(res))

\* One raw value per named field.
RawFields(samples) ==
    {[string |-> s, boolean |-> b, double |-> d, int32 |-> i, int64 |-> l,
      decimal |-> m, enum |-> e, datetime |-> t] :
        s \in samples.string, b \in samples.boolean, d \in samples.double,
        i \in samples.int32, l \in samples.int64, m \in samples.decimal,
        e \in samples.enum, t \in samples.datetime}

DispatchCheckQuery ==
    /\ pc = "idle"
    /\ \E raw \in RawFields(QuerySamples) :
        LET query == PutAll(EmptyObject, CheckFields, raw)
        IN  Dispatch("checkQuery",
                     RawRequest(query, EmptyObject, EmptyObject, Undefined),
                     BindCheckQuery(query))

ReplyCheckQuery ==
    /\ Awaiting("checkQuery")
    /\ \E res \in Results("checkQuery") : Reply(res, ShapeCheckQuery(res))

DispatchCheckPath ==
    /\ pc = "idle"
    /\ \E raw \in RawFields(PathSamples) :
        LET params == PutAll(EmptyObject, CheckFields, raw)
        IN  Dispatch("checkPath",
                     RawRequest(EmptyObject, params, EmptyObject, Undefined),
                     BindCheckPath(params))

ReplyCheckPath ==
    /\ Awaiting("checkPath")
    /\ \E res \in Results("checkPath") : Reply(res, ShapeCheckPath(res))

\* The request is over; the next one starts from nothing.
NextRequest ==
    /\ pc = "done"
    /\ pc' = "idle"
    /\ method' = "none"
    /\ req' = NoRequest
    /\ request' = Undefined
    /\ result' = Undefined
    /\ calls' = <<>>
    /\ raised' = "none"

Next ==
    \/ DispatchGetApiInfo \/ ReplyGetApiInfo
    \/ DispatchGetWidgets \/ ReplyGetWidgets
    \/ DispatchCreateWidget \/ ReplyCreateWidget
    \/ DispatchGetWidget \/ ReplyGetWidget
    \/ DispatchDeleteWidget \/ ReplyDeleteWidget
    \/ DispatchGetWidgetBatch \/ ReplyGetWidgetBatch
    \/ DispatchMirrorFields \/ FailMirrorFields \/ ReplyMirrorFields
    \/ DispatchCheckQuery \/ ReplyCheckQuery
    \/ DispatchCheckPath \/ ReplyCheckPath
    \/ NextRequest

Spec == Init /\ [][Next]_vars

(***************************************************************************)
(* What a finished handler run shows.                                      *)
(***************************************************************************)
\* The handler received a result and ran to its end.
Replied == pc = "done" /\ result.t = "object"

\* The typed request has been passed to the API service.
Dispatched == pc = "awaiting" \/ Replied

ErrorPopulated == Truthy(result.error)

ValuePopulated == Truthy(result.value)

\* The payloads sent, in order.
Sent == SelectSeq(calls, LAMBDA c : c.op = "send")

StatusCalls == SelectSeq(calls, LAMBDA c : c.op = "status")

\* The status the reply carries when the handler ends, if it set one.
StatusIs(code) ==
    StatusCalls # <<>> /\ StatusCalls[Len(StatusCalls)].arg = Num(code)

HeaderSet(name) == \E i \in DOMAIN calls : calls[i].op = "header" /\ calls[i].name = name

HeaderIs(name, value) ==
    \E i \in DOMAIN calls : calls[i] = HeaderCall(name, value)

\* Every header call comes before the first send.
HeadersBeforeSend ==
    \A i, j \in DOMAIN calls :
        calls[i].op = "header" /\ calls[j].op = "send" => i < j

\* The status section 4.3 of the specification assigns to an error.
TableStatus(error) ==
    LET code == Get(error, "code")
    IN  IF code # Undefined /\ code.a \in DOMAIN standardErrorCodes
        THEN standardErrorCodes[code.a]
        ELSE 500

\* C1: on every route, a result with neither `error` nor `value` populated
\* ends the handler in the thrown "Result must have an error or value."
\* error, with nothing sent.
C1_EmptyResultRaisesViolation ==
    Replied /\ ~ErrorPopulated /\ ~ValuePopulated
        => raised = ContractViolation /\ Sent = <<>>

\* C2: on every route, a result with `error` or `value` populated makes the
\* handler send exactly one response.
C2_ExactlyOneSend ==
    Replied /\ (ErrorPopulated \/ ValuePopulated) => Len(Sent) = 1

\* C3: the status the handlers look up for an error is the table value for
\* each of the eleven known codes and 500 for every other code and for a
\* missing code.
C3_LookupIsTableOrDefault ==
    Replied /\ ErrorPopulated
        => StatusCalls # <<>> /\ StatusCalls[1].arg = Num(TableStatus(result.error))

\* The coerced fields of the check endpoints, with the parse each one uses.
NumericFields == {"double", "int32", "int64", "decimal"}

\* The raw strings a dispatched request was bound from, by typed field.
RawOf(field) ==
    CASE method = "checkQuery" -> Get(req.query, field)
      [] method = "checkPath" -> Get(req.params, field)
      [] method = "getWidgets" -> Get(req.query, "q")
      [] OTHER -> Get(req.params, field)

\* The raw string does not parse as the field's primitive kind.
FailsCoercion(field, raw) ==
    CASE field = "boolean" ->
             parseBoolean(raw) = Undefined
      [] field \in {"double", "decimal"} -> parseFloat(raw) = NaN
      [] OTHER -> parseInt(raw) = NaN

CoercedFields ==
    CASE method \in {"checkQuery", "checkPath"} -> NumericFields \cup {"boolean"}
      [] method \in {"getWidget", "deleteWidget"} -> {"id"}
      [] OTHER -> {}

\* C4: a supplied raw string that fails coercion leaves its field of the
\* dispatched typed request unset (no value at all, not NaN).
C4_FailedCoercionLeavesUnset ==
    Dispatched =>
        \A f \in CoercedFields :
            IsString(RawOf(f)) /\ FailsCoercion(f, RawOf(f))
                => Get(request, f) = Undefined

OnDelete == Replied /\ method = "deleteWidget" /\ ~ErrorPopulated /\ ValuePopulated

\* C5: DELETE /widgets/:id with a value and no error: notFound gives 404
\* whatever conflict is; otherwise conflict gives 409; otherwise 204 with an
\* empty body.  409 is chosen only when notFound is not set.
C5_DeleteNotFoundBeforeConflict ==
    OnDelete =>
        LET notFound == Truthy(Get(result.value, "notFound"))
            conflict == Truthy(Get(result.value, "conflict"))
        IN  /\ notFound => StatusIs(404)
            /\ ~notFound /\ conflict => StatusIs(409)
            /\ ~notFound /\ ~conflict => StatusIs(204) /\ Sent = <<SendCall(EmptyObject)>>
            /\ StatusIs(409) => ~notFound
            /\ raised = "none"

C5_Witness ==
    /\ OnDelete
    /\ Truthy(Get(result.value, "notFound"))
    /\ Truthy(Get(result.value, "conflict"))
    /\ StatusIs(404)

OnGetWidget == Replied /\ method = "getWidget" /\ ~ErrorPopulated /\ ValuePopulated

\* C6: GET /widgets/:id with a value and no error: the eTag header is set
\* whenever value.eTag is set; a widget gives 200 with the widget as body,
\* also when notModified is true; otherwise notModified gives 304 with no
\* body; with neither the handler throws the contract violation.
C6_GetWidgetPriority ==
    OnGetWidget =>
        LET widget == Get(result.value, "widget")
            notModified == Truthy(Get(result.value, "notModified"))
            eTag == Get(result.value, "eTag")
        IN  /\ NotNullish(eTag) => HeaderIs("eTag", eTag)
            /\ Truthy(widget)
                   => StatusIs(200) /\ Sent = <<SendCall(widget)>> /\ raised = "none"
            /\ ~Truthy(widget) /\ notModified
                   => StatusIs(304) /\ Sent = <<>> /\ raised = "none"
            /\ ~Truthy(widget) /\ ~notModified
                   => raised = ContractViolation /\ Sent = <<>>

C6_Witness ==
    /\ OnGetWidget
    /\ Truthy(Get(result.value, "widget"))
    /\ Truthy(Get(result.value, "notModified"))
    /\ NotNullish(Get(result.value, "eTag"))
    /\ StatusIs(200)

OnCreate == Replied /\ method = "createWidget" /\ ~ErrorPopulated /\ ValuePopulated

\* C7: POST /widgets with a value and no error: with widget, url and eTag
\* all set the response is 201 with Location = value.url, eTag = value.eTag
\* and the widget as body, both headers set before the send; each header
\* is set if and only if its sub-field is non-null.
C7_CreateWidgetHeaders ==
    OnCreate =>
        LET widget == Get(result.value, "widget")
            url == Get(result.value, "url")
            eTag == Get(result.value, "eTag")
        IN  /\ Truthy(widget) /\ NotNullish(url) /\ NotNullish(eTag)
                   => /\ StatusIs(201)
                      /\ HeaderIs("Location", url)
                      /\ HeaderIs("eTag", eTag)
                      /\ Sent = <<SendCall(widget)>>
            /\ HeadersBeforeSend
            /\ HeaderSet("Location") <=> NotNullish(url)
            /\ HeaderSet("eTag") <=> NotNullish(eTag)

C7_Witness ==
    /\ OnCreate
    /\ Truthy(Get(result.value, "widget"))
    /\ NotNullish(Get(result.value, "url"))
    /\ NotNullish(Get(result.value, "eTag"))
    /\ Len(Sent) = 1
    /\ HeaderSet("Location")
    /\ HeaderSet("eTag")

\* The typed fields of the query-bound endpoints.
QueryBoundFields ==
    CASE method = "checkQuery" -> CheckFields
      [] method = "getWidgets" -> {"query"}
      [] OTHER -> {}

VerbatimFields == {"string", "enum", "datetime", "query"}

QueryBound == Dispatched /\ method \in {"checkQuery", "getWidgets"}

\* C8 as stated: a field of the typed request is set if and only if its
\* query parameter is present and non-empty.
C8_SetIffPresentAndNonEmpty ==
    QueryBound =>
        \A f \in QueryBoundFields :
            Get(request, f) # Undefined
                <=> (RawOf(f) # Undefined /\ RawOf(f) # Str(<<>>))

\* C8 as amended: a field of the typed request is set only if its query
\* parameter is present as a string, and an omitted parameter leaves its
\* field out of the typed request, with no default.  When the parameter is
\* present as a string: the string, enum and datetime fields (and `query` of
\* GET /widgets) are set to the raw string, the empty string included; the
\* double, int32, int64 and decimal fields are always set, to the number
\* parseFloat (double, decimal) or parseInt (int32, int64) reads from it,
\* NaN included; the boolean field is set exactly when the string is
\* "true" or "false" in any letter case, and then to that boolean.
C8_SetAsBound ==
    QueryBound =>
        \A f \in QueryBoundFields :
            /\ Get(request, f) # Undefined => IsString(RawOf(f))
            /\ RawOf(f) = Undefined => f \notin DOMAIN request
            /\ f \in VerbatimFields /\ IsString(RawOf(f))
                   => f \in DOMAIN request /\ request[f] = RawOf(f)
            /\ f \in NumericFields /\ IsString(RawOf(f))
                   => /\ f \in DOMAIN request
                      /\ request[f].t = "number"
                      /\ request[f] = IF f \in {"double", "decimal"}
                                      THEN parseFloat(RawOf(f))
                                      ELSE parseInt(RawOf(f))
            /\ f = "boolean" /\ IsString(RawOf(f))
                   => /\ Get(request, f) = Bool(TRUE)
                          <=> LowerValueIs(RawOf(f).s, <<"t", "r", "u", "e">>)
                      /\ Get(request, f) = Bool(FALSE)
                          <=> LowerValueIs(RawOf(f).s, <<"f", "a", "l", "s", "e">>)
                      /\ Get(request, f) \in {Bool(TRUE), Bool(FALSE), Undefined}

C8_Witness ==
    /\ QueryBound
    /\ method = "checkQuery"
    /\ Get(req.query, "string") = Str(<<>>)
    /\ Get(request, "string") = Str(<<>>)
    /\ Get(req.query, "boolean") = Str(<<"n", "o">>)
    /\ Get(request, "boolean") = Undefined
    /\ Get(req.query, "double") = Str(<<"1", ".", "5">>)
    /\ Get(request, "double") = Finite(1, <<"1">>, <<"5">>)
    /\ Get(req.query, "int32") = Str(<<"x", "1">>)
    /\ Get(request, "int32") = NaN
    /\ Get(req.query, "int64") = Undefined
    /\ "int64" \notin DOMAIN request

\* C9: on every route, a handler run that sent a response for a populated
\* value ends after that send and does not also throw the contract
\* violation.
C9_NoViolationAfterSend ==
    Replied /\ Sent # <<>> => raised = "none"

\* C10: on every route, a populated `error` is terminal, also when `value`
\* is populated: the status is the table value of error.code (500 by
\* default), the body is the error, exactly one send occurs, no header is
\* set, and the contract violation is not thrown.
C10_ErrorBranchTerminal ==
    Replied /\ ErrorPopulated
        => /\ calls = <<StatusCall(Num(TableStatus(result.error))),
                        SendCall(result.error)>>
           /\ raised = "none"

====
